---------------------------- MODULE Spec2Model ----------------------------
(***************************************************************************)
(* A model of the MFRC522 MicroPython driver (mfrc522_micropython/         *)
(* mfrc522.py).  The driver is synchronous and single-threaded: every      *)
(* public method is one atomic action.  The chip (and the card behind it)  *)
(* is the environment: whatever the driver reads from a chip register is   *)
(* an input of the action, drawn from a bounded set.  A register access,   *)
(* the CRC coprocessor and the polling loops are also modelled on their    *)
(* own, step by step.                                                      *)
(***************************************************************************)
EXTENDS Integers, Sequences, FiniteSets, TLC

VARIABLES
    regs,           \* chip registers that hold what was last written to them
    card,           \* memory of the simulated card: block address -> 16 bytes
    authenticated,  \* an authenticate returned normally, no stop_crypto1 / _init_reader since
    last,           \* the call that just returned: its arguments, what it read,
                    \* what it did; op is "idle" once the caller has taken the result
    bus,            \* the SPI bus during one register access: chip-select line,
                    \* position in _write_register / _read_register, bytes transferred
    crcUnit,        \* the chip's CRC coprocessor: its result registers, and what
                    \* _calculate_crc has returned so far for each input
    loop            \* one polling loop, pass by pass: its counter i, the value n
                    \* it last read, the number of reads it has made

vars == <<regs, card, authenticated, last, bus, crcUnit, loop>>

\* what the method-level actions work on, and what the step-level ones work on
callVars == <<regs, card, authenticated, last>>
stepVars == <<bus, crcUnit, loop>>

(***************************************************************************)
(* Program constants                                                       *)
(***************************************************************************)
MI_OK == 0
MI_NOTAGERR == 1
MI_ERR == 2
MAX_LEN == 16
PICC_REQIDL == 38
PICC_REQALL == 82
PICC_ANTICOLL == 147
PICC_SELECTTAG == 147
PICC_AUTHENT1A == 96
PICC_AUTHENT1B == 97
PICC_READ == 48
PICC_WRITE == 160
PICC_HALT == 80
PCD_IDLE == 0
PCD_AUTHENT == 14
PCD_TRANSCEIVE == 12
PCD_RESETPHASE == 15
PCD_CALCCRC == 3
PollBudget == 2000
CrcPollBudget == 255
ByteMax == 255

(***************************************************************************)
(* Bounds of the model                                                     *)
(***************************************************************************)
MaxBlock == 1       \* block addresses 0..MaxBlock
MaxSeed == 1        \* payloads and UIDs are built from the seeds 0..MaxSeed
MaxControl == 15    \* CONTROL_REG values 0..MaxControl in the _transceive grid

Byte == 0..ByteMax

(***************************************************************************)
(* Python's & | ^ on non-negative integers                                 *)
(***************************************************************************)
RECURSIVE BitAnd(_, _)
BitAnd(a, b) ==
    IF a = 0 \/ b = 0 THEN 0
    ELSE (a % 2) * (b % 2) + 2 * BitAnd(a \div 2, b \div 2)

RECURSIVE BitXor(_, _)
BitXor(a, b) ==
    IF a = 0 THEN b
    ELSE IF b = 0 THEN a
    ELSE ((a + b) % 2) + 2 * BitXor(a \div 2, b \div 2)

BitOr(a, b) == a + b - BitAnd(a, b)

\* tmp & (~mask) for a byte tmp
BitClear(a, mask) == a - BitAnd(a, mask)

(***************************************************************************)
(* RegisterAccess helpers on a register's stored byte                      *)
(***************************************************************************)
\* _set_bit_mask: tmp | mask is written back
SetBitMask(tmp, mask) == BitOr(tmp, mask)

\* _clear_bit_mask: tmp & (~mask) is written back
ClearBitMask(tmp, mask) == BitClear(tmp, mask)

(***************************************************************************)
(* What the chip answers during one _calculate_crc call:                   *)
(*   irqAt  the poll of DIV_IRQ_REG (1-based) that first shows the         *)
(*          CRC-ready bit 0x04, 0 when no poll of the call shows it        *)
(*   lo, hi the bytes then read from CRC_RESULT_REG_L and CRC_RESULT_REG_M *)
(***************************************************************************)
CrcResponse(irqAt, lo, hi) == [irqAt |-> irqAt, lo |-> lo, hi |-> hi]

\* i = 0xFF; each pass reads DIV_IRQ_REG, decrements i and stops on i == 0
\* or on the flag: the number of reads is the first pass with one of the two.
CrcPolls(cresp) ==
    IF cresp.irqAt = 0 \/ cresp.irqAt > CrcPollBudget THEN CrcPollBudget
    ELSE cresp.irqAt

\* _calculate_crc: the result registers are read whichever way the loop ended
CalculateCrc(data, cresp) ==
    [crc |-> <<cresp.lo, cresp.hi>>, polls |-> CrcPolls(cresp), data |-> data,
     commands |-> <<PCD_CALCCRC>>]

(***************************************************************************)
(* What the chip answers during one _transceive call:                      *)
(*   irqAt   the poll of COMM_IRQ_REG (1-based) that first shows bit 0x01  *)
(*           or a bit of 0x30; 0 when no poll of the call shows one        *)
(*   n       the value of COMM_IRQ_REG read by that poll                   *)
(*   error   ERROR_REG                                                     *)
(*   level   FIFO_LEVEL_REG                                                *)
(*   control CONTROL_REG                                                   *)
(*   fifo    the bytes successive reads of FIFO_DATA_REG deliver           *)
(***************************************************************************)
ChipResponse(irqAt, n, error, level, control, fifo) ==
    [irqAt |-> irqAt, n |-> n, error |-> error, level |-> level,
     control |-> control, fifo |-> fifo]

\* A read of FIFO_DATA_REG past the bytes the chip holds delivers 0.
FifoByte(fifo, j) == IF j <= Len(fifo) THEN fifo[j] ELSE 0

\* i = 2000; each pass reads COMM_IRQ_REG into n, decrements i and goes on
\* only while i != 0 and n shows neither 0x01 nor 0x30.  Polls before irqAt
\* read a value with none of these bits, so the loop ends at pass irqAt, or
\* at pass 2000 with i == 0.
PollLoop(resp) ==
    LET polls == IF resp.irqAt = 0 \/ resp.irqAt > PollBudget THEN PollBudget
                 ELSE resp.irqAt
    IN [polls |-> polls,
        i |-> PollBudget - polls,
        n |-> IF resp.irqAt = 0 \/ resp.irqAt > PollBudget THEN 0 ELSE resp.n]

\* BackLen without the clamp to MAX_LEN * 8
BackLen_NoClamp(level, control) ==
    LET last_bits == BitAnd(control, \h07)
    IN IF last_bits # 0 THEN (level - 1) * 8 + last_bits ELSE level * 8

\* back_len from FIFO_LEVEL_REG and CONTROL_REG & 0x07, clamped to MAX_LEN * 8
BackLen(level, control) ==
    LET last_bits == BitAnd(control, \h07)
        back_len == IF last_bits # 0 THEN (level - 1) * 8 + last_bits
                    ELSE level * 8
    IN IF back_len > MAX_LEN * 8 THEN MAX_LEN * 8 ELSE back_len

\* for _ in range(back_len // 8): back_data.append(read FIFO_DATA_REG)
Drain(fifo, back_len) == [j \in 1..(back_len \div 8) |-> FifoByte(fifo, j)]

\* BIT_FRAMING_REG after _transceive: 0x80 is set, then cleared
FramingAfter(bf) == ClearBitMask(SetBitMask(bf, \h80), \h80)

\* _transceive(send_data) with BIT_FRAMING_REG holding bf when it starts.
\* status, data, bits are what it returns; the other fields record what it
\* did: the frame sent, the framing it was sent with, the reads it made, the
\* commands it wrote to COMMAND_REG.
Transceive(send, resp, bf) ==
    LET p == PollLoop(resp)
        answered == p.i # 0
        clean == answered /\ BitAnd(resp.error, \h1B) = 0
        received == clean /\ BitAnd(p.n, \h30) # 0
        back_len == IF received THEN BackLen(resp.level, resp.control) ELSE 0
    IN [frame |-> send,
        commands |-> <<PCD_IDLE, PCD_TRANSCEIVE>>,
        txLastBits |-> BitAnd(bf, \h07),
        resp |-> resp,
        polls |-> p.polls,
        errorRead |-> answered,
        fifoRead |-> received,
        status |-> IF ~clean THEN MI_ERR
                   ELSE IF BitAnd(p.n, \h01) # 0 THEN MI_NOTAGERR
                   ELSE MI_OK,
        data |-> IF received THEN Drain(resp.fifo, back_len) ELSE <<>>,
        bits |-> back_len]

(***************************************************************************)
(* Arguments the callers pass                                              *)
(***************************************************************************)
Blocks == 0..MaxBlock
Seeds == 0..MaxSeed

\* a 16-byte block payload
Payload(seed) == [i \in 1..16 |-> (16 * seed + i) % 256]
Payloads == {Payload(s) : s \in Seeds}

\* a 4-byte UID; seed 0 is 12 34 56 78
Uid(seed) == <<(\h12 + seed) % 256, \h34, \h56, \h78>>
Uids == {Uid(s) : s \in Seeds}

\* the factory default key, DEFAULT_KEYS[0]
DefaultKey == [i \in 1..6 |-> \hFF]

\* the XOR of the four UID bytes, the checksum a card sends as 5th byte
Bcc(u) == BitXor(BitXor(BitXor(u[1], u[2]), u[3]), u[4])

(***************************************************************************)
(* The chip's answers the model draws from                                 *)
(***************************************************************************)
CrcResponses ==
    { CrcResponse(1, \h63, \h63),              \* flag seen by the first poll
      CrcResponse(0, 0, 0) }                   \* flag never seen: stale result

\* <<FIFO level, CONTROL_REG, FIFO content>> of an answer that was received
Replies ==
    { <<2, 0, <<\h44, 0>>>>,                   \* ATQA, 16 bits
      <<2, 7, <<\h44, 0>>>>,                   \* 15 bits
      <<3, 0, <<\h08, \hB6, \hDD>>>>,          \* SAK + CRC, 24 bits
      <<1, 4, <<\h0A>>>>,                      \* 4-bit acknowledge
      <<1, 4, <<\h05>>>>,                      \* 4-bit negative acknowledge
      <<1, 0, <<\h0A>>>>,                      \* 0x0A as a full byte
      <<0, 3, <<>>>>,                          \* level 0, 3 valid bits
      <<0, 0, <<>>>> }                         \* nothing in the FIFO
    \cup { <<16, 0, p>> : p \in Payloads }                  \* a block
    \cup { <<18, 0, p \o <<\h12, \h34>>>> : p \in Payloads } \* a block + CRC
    \cup { <<5, 0, u \o <<Bcc(u)>>>> : u \in Uids }          \* UID + checksum
    \cup { <<6, 3, u \o <<Bcc(u), 0>>>> : u \in Uids }       \* the same + 3 bits
    \cup { <<5, 0, u \o <<BitXor(Bcc(u), 2 ^ k)>>>> : u \in Uids, k \in 0..7 }

ChipResponses ==
    { ChipResponse(0, 0, 0, 0, 0, <<>>),                \* no IRQ in 2000 polls
      ChipResponse(PollBudget, \h30, 0, 0, 0, <<>>),    \* IRQ at the 2000th poll
      ChipResponse(1, \h30, \h08, 0, 0, <<>>),          \* parity error
      ChipResponse(1, \h01, 0, 0, 0, <<>>) }            \* timer IRQ only
    \cup { ChipResponse(1, n, 0, r[1], r[2], r[3]) : n \in {\h30, \h21}, r \in Replies }

\* STATUS2_REG as the chip holds it after an authentication handshake
Status2Values == {\h00, \h08}

(***************************************************************************)
(* The protocol operations.  Each operator computes what the method does   *)
(* with the chip's answers it is given; exc is the exception that leaves   *)
(* the method ("none" when it returns), ret the value it returns.          *)
(***************************************************************************)
NoRet == [status |-> -1, data |-> <<>>]

\* RequestStatus without the test of the bit length
RequestStatus_NoLength(status, back_bits) ==
    IF status # MI_OK THEN MI_ERR ELSE status

\* request: anything but Ok with 16 bits is reported as MI_ERR
RequestStatus(status, back_bits) ==
    IF status # MI_OK \/ back_bits # \h10 THEN MI_ERR ELSE status

Request(req_mode, resp) ==
    LET t == Transceive(<<req_mode>>, resp, \h07)
    IN [calls |-> <<t>>, crcs |-> <<>>, exc |-> "none",
        ret |-> [status |-> RequestStatus(t.status, t.bits), data |-> t.data],
        bitFraming |-> FramingAfter(\h07)]

\* checksum = 0; for i in range(4): checksum ^= back_data[i]
RECURSIVE Checksum(_, _)
Checksum(back_data, k) ==
    IF k = 0 THEN 0 ELSE BitXor(Checksum(back_data, k - 1), back_data[k])

\* AnticollResult without the comparison of the checksum
AnticollResult_NoChecksum(status, back_data) ==
    IF status = MI_OK
    THEN IF Len(back_data) = 5
         THEN [status |-> status, data |-> SubSeq(back_data, 1, 4)]
         ELSE [status |-> MI_ERR, data |-> <<>>]
    ELSE [status |-> status, data |-> <<>>]

\* anticoll: the (status, uid) it returns from _transceive's status and data
AnticollResult(status, back_data) ==
    IF status = MI_OK
    THEN IF Len(back_data) = 5
         THEN IF Checksum(back_data, 4) # back_data[5]
              THEN [status |-> MI_ERR, data |-> <<>>]
              ELSE [status |-> status, data |-> SubSeq(back_data, 1, 4)]
         ELSE [status |-> MI_ERR, data |-> <<>>]
    ELSE [status |-> status, data |-> <<>>]

Anticoll(resp) ==
    LET t == Transceive(<<PICC_ANTICOLL, \h20>>, resp, \h00)
    IN [calls |-> <<t>>, crcs |-> <<>>, exc |-> "none",
        ret |-> AnticollResult(t.status, t.data),
        bitFraming |-> FramingAfter(\h00)]

\* select_tag: back_data[0] when Ok with 24 bits, else 0
SelectTag(uid, cresp, resp, bf) ==
    LET buf == <<PICC_SELECTTAG, \h70>> \o uid
        c == CalculateCrc(buf, cresp)
        t == Transceive(buf \o c.crc, resp, bf)
        hit == t.status = MI_OK /\ t.bits = \h18
    IN [calls |-> <<t>>, crcs |-> <<c>>,
        exc |-> IF hit /\ Len(t.data) = 0 THEN "IndexError" ELSE "none",
        ret |-> IF hit /\ Len(t.data) > 0 THEN [status |-> t.data[1], data |-> <<>>]
                ELSE IF hit THEN NoRet
                ELSE [status |-> 0, data |-> <<>>],
        bitFraming |-> FramingAfter(bf)]

\* AuthenticateFails without the test of STATUS2_REG
AuthenticateFails_StatusOnly(status, status2) == status # MI_OK

\* authenticate raises unless status is Ok and STATUS2_REG shows bit 0x08
AuthenticateFails(status, status2) ==
    status # MI_OK \/ BitAnd(status2, \h08) = 0

\* Authenticate with the frame started by the chip's own authenticate command
Authenticate_WithAuthent(auth_mode, block_addr, key, uid, resp, status2, bf) ==
    LET buff == <<auth_mode, block_addr>> \o key \o SubSeq(uid, 1, 4)
        t == [Transceive(buff, resp, bf) EXCEPT !.commands = <<PCD_IDLE, PCD_AUTHENT>>]
    IN [calls |-> <<t>>, crcs |-> <<>>,
        exc |-> IF AuthenticateFails(t.status, status2) THEN "AuthenticationError"
                ELSE "none",
        ret |-> NoRet,
        bitFraming |-> FramingAfter(bf)]

Authenticate(auth_mode, block_addr, key, uid, resp, status2, bf) ==
    LET buff == <<auth_mode, block_addr>> \o key \o SubSeq(uid, 1, 4)
        t == Transceive(buff, resp, bf)
    IN [calls |-> <<t>>, crcs |-> <<>>,
        exc |-> IF AuthenticateFails(t.status, status2) THEN "AuthenticationError"
                ELSE "none",
        ret |-> NoRet,
        bitFraming |-> FramingAfter(bf)]

\* StopCrypto1 with the card halt command (HLTA: PICC_HALT, 0, CRC_A) sent
\* before the crypto bit is cleared; a halted card does not answer
StopCrypto1_SendsHalt(status2, bf) ==
    [calls |-> <<Transceive(<<PICC_HALT, \h00, \h57, \hCD>>,
                            ChipResponse(0, 0, 0, 0, 0, <<>>), bf)>>,
     crcs |-> <<>>, exc |-> "none", ret |-> NoRet,
     status2 |-> ClearBitMask(status2, \h08)]

\* stop_crypto1: the crypto bit of STATUS2_REG is cleared; no frame is sent
StopCrypto1(status2, bf) ==
    [calls |-> <<>>, crcs |-> <<>>, exc |-> "none", ret |-> NoRet,
     status2 |-> ClearBitMask(status2, \h08)]

\* Read with a check of the session flag before anything is sent
Read_ChecksSession(block_addr, cresp, resp, bf) ==
    LET recv_data == <<PICC_READ, block_addr>>
        c == CalculateCrc(recv_data, cresp)
        t == Transceive(recv_data \o c.crc, resp, bf)
        ok == t.status = MI_OK /\ Len(t.data) = 16
    IN IF ~authenticated
       THEN [calls |-> <<>>, crcs |-> <<>>, exc |-> "ReadError", ret |-> NoRet,
             bitFraming |-> bf]
       ELSE [calls |-> <<t>>, crcs |-> <<c>>,
             exc |-> IF ok THEN "none" ELSE "ReadError",
             ret |-> IF ok THEN [status |-> MI_OK, data |-> t.data] ELSE NoRet,
             bitFraming |-> FramingAfter(bf)]

\* read returns back_data when Ok with 16 bytes, else raises ReadError
ReadSucceeds(status, back_data) == status = MI_OK /\ Len(back_data) = 16

Read(block_addr, cresp, resp, bf) ==
    LET recv_data == <<PICC_READ, block_addr>>
        c == CalculateCrc(recv_data, cresp)
        t == Transceive(recv_data \o c.crc, resp, bf)
    IN [calls |-> <<t>>, crcs |-> <<c>>,
        exc |-> IF ReadSucceeds(t.status, t.data) THEN "none" ELSE "ReadError",
        ret |-> IF ReadSucceeds(t.status, t.data) THEN [status |-> MI_OK, data |-> t.data]
                ELSE NoRet,
        bitFraming |-> FramingAfter(bf)]

\* The test both phases of write apply, evaluated left to right as Python's
\* "or" does: back_data[0] is read only when status is Ok and back_len is 4.
WriteCheck(t) ==
    IF t.status # MI_OK THEN "WriteError"
    ELSE IF t.bits # 4 THEN "WriteError"
    ELSE IF Len(t.data) = 0 THEN "IndexError"
    ELSE IF BitAnd(t.data[1], \h0F) # \h0A THEN "WriteError"
    ELSE "none"

\* phase 1 of write: the command frame
WritePhase1(block_addr, cresp, resp, bf) ==
    LET buf == <<PICC_WRITE, block_addr>>
        c == CalculateCrc(buf, cresp)
        t == Transceive(buf \o c.crc, resp, bf)
    IN [calls |-> <<t>>, crcs |-> <<c>>, exc |-> WriteCheck(t), ret |-> NoRet,
        bitFraming |-> FramingAfter(bf)]

\* phase 2 of write, after a phase 1 (p1) that passed: the data frame
WritePhase2(p1, data, cresp, resp) ==
    LET buf == SubSeq(data, 1, IF Len(data) < 16 THEN Len(data) ELSE 16)
        c == CalculateCrc(buf, cresp)
        t == Transceive(buf \o c.crc, resp, p1.bitFraming)
    IN [calls |-> p1.calls \o <<t>>, crcs |-> p1.crcs \o <<c>>,
        exc |-> WriteCheck(t), ret |-> NoRet,
        bitFraming |-> FramingAfter(p1.bitFraming)]

\* read_uid: anticoll only after a request that returned Ok; the UID, or None
\* ReadUid with the anticollision sent whatever request returned
ReadUid_AlwaysAnticoll(resp1, resp2) ==
    LET q == Request(PICC_REQIDL, resp1)
        a == Anticoll(resp2)
    IN [calls |-> q.calls \o a.calls, crcs |-> <<>>, exc |-> "none",
        ret |-> IF a.ret.status = MI_OK THEN a.ret ELSE NoRet,
        bitFraming |-> a.bitFraming]

ReadUid(resp1, resp2) ==
    LET q == Request(PICC_REQIDL, resp1)
        a == Anticoll(resp2)
    IN IF q.ret.status = MI_OK
       THEN [calls |-> q.calls \o a.calls, crcs |-> <<>>, exc |-> "none",
             ret |-> IF a.ret.status = MI_OK THEN a.ret ELSE NoRet,
             bitFraming |-> a.bitFraming]
       ELSE [calls |-> q.calls, crcs |-> <<>>, exc |-> "none", ret |-> NoRet,
             bitFraming |-> q.bitFraming]

(***************************************************************************)
(* The simulated card                                                      *)
(***************************************************************************)
\* the card acknowledges: 4 bits, 0x0A, no error, no timeout
AckResponse == ChipResponse(1, \h30, 0, 1, 4, <<\h0A>>)

\* the card answers a read of a block holding d
BlockResponse(d) == ChipResponse(1, \h30, 0, 16, 0, d)

\* the card stores the data frame it acknowledges
CardAfterWrite(mem, block_addr, data, eff) ==
    IF Len(eff.calls) = 2 /\ eff.calls[2].resp = AckResponse
    THEN [mem EXCEPT ![block_addr] = data]
    ELSE mem

(***************************************************************************)
(* The state machine                                                       *)
(***************************************************************************)
\* the writes to COMMAND_REG of a call, in order: each _calculate_crc comes
\* right before the _transceive whose frame it completes
RECURSIVE CommandsOf(_, _, _)
CommandsOf(crcs, calls, k) ==
    IF k = 0 THEN <<>>
    ELSE CommandsOf(crcs, calls, k - 1)
         \o (IF k <= Len(crcs) THEN crcs[k].commands ELSE <<>>)
         \o calls[k].commands

\* the record kept of a call; unwinding is the exception on its way out of
\* the with block when __exit__ runs ("none" otherwise)
Call(op, mode, block_addr, data, uid, status2, eff) ==
    [op |-> op, mode |-> mode, blockAddr |-> block_addr, data |-> data,
     uid |-> uid, status2 |-> status2, calls |-> eff.calls, crcs |-> eff.crcs,
     commands |-> CommandsOf(eff.crcs, eff.calls, Len(eff.calls)),
     exc |-> eff.exc, ret |-> eff.ret, unwinding |-> "none",
     authBefore |-> authenticated]

\* _reset: the one write to COMMAND_REG of _init_reader
ResetCommands == <<PCD_RESETPHASE>>

NoEffect == [calls |-> <<>>, crcs |-> <<>>, exc |-> "none", ret |-> NoRet]

\* TX_CONTROL_REG after _antenna_on: the mask is set only if both bits are clear
AntennaOn(temp) == IF BitAnd(temp, \h03) = 0 THEN SetBitMask(temp, \h03) ELSE temp

\* AntennaOff clearing one of the two driver bits only
AntennaOff_OneBit(temp) == ClearBitMask(temp, \h01)

\* TX_CONTROL_REG after _antenna_off
AntennaOff(temp) == ClearBitMask(temp, \h03)

\* The chip's registers after _init_reader: the soft reset puts the reset
\* values (TX_CONTROL_REG 0x80, BIT_FRAMING_REG 0, crypto bit clear), then
\* _antenna_on runs.
RegsAfterInit ==
    [bitFraming |-> \h00, txControl |-> AntennaOn(\h80), status2 |-> \h00]

(***************************************************************************)
(* The step-level state after construction                                 *)
(***************************************************************************)
\* no register access in progress; __init__ has driven chip-select high
BusIdle ==
    [pc |-> "idle", cs |-> 1, addr |-> 0, isRead |-> FALSE, val |-> 0,
     log |-> <<>>]

\* the byte sequences _calculate_crc is called with: the frames of read
CrcInputs == { <<PICC_READ, b>> : b \in Blocks }

\* no _calculate_crc has been called
NoCrcCall == [data |-> <<>>, crc |-> <<>>, polls |-> 0, ready |-> FALSE]

\* the CRC result registers after the soft reset (0xFF, 0xFF); call is the
\* _calculate_crc that just returned, first what the first call with each
\* input returned (<<>> while there was none)
CrcUnitReset ==
    [result |-> <<\hFF, \hFF>>, call |-> NoCrcCall,
     first |-> [d \in CrcInputs |-> <<>>]]

\* no polling loop running
LoopIdle == [pc |-> "idle", kind |-> "none", i |-> 0, n |-> 0, reads |-> 0]

\* __init__: the state after construction
Init ==
    /\ regs = RegsAfterInit
    /\ card = [b \in Blocks |-> [i \in 1..16 |-> 0]]
    /\ authenticated = FALSE
    /\ last = [op |-> "init", mode |-> 0, blockAddr |-> 0, data |-> <<>>,
               uid |-> <<>>, status2 |-> -1, calls |-> <<>>, crcs |-> <<>>,
               commands |-> ResetCommands, exc |-> "none", ret |-> NoRet,
               unwinding |-> "none", authBefore |-> FALSE]
    /\ bus = BusIdle
    /\ crcUnit = CrcUnitReset
    /\ loop = LoopIdle

\* no call is pending: the caller is free to make the next one
Idle ==
    [op |-> "idle", mode |-> 0, blockAddr |-> 0, data |-> <<>>, uid |-> <<>>,
     status2 |-> -1, calls |-> <<>>, crcs |-> <<>>, commands |-> <<>>,
     exc |-> "none", ret |-> NoRet, unwinding |-> "none", authBefore |-> FALSE]

\* the caller takes the result (or catches the exception) of the call
CallerContinues ==
    /\ last.op # "idle"
    /\ UNCHANGED stepVars
    /\ last' = Idle
    /\ UNCHANGED <<regs, card, authenticated>>

\* _init_reader run again on the same chip
InitReader ==
    /\ last.op = "idle"
    /\ UNCHANGED stepVars
    /\ regs' = RegsAfterInit
    /\ authenticated' = FALSE
    /\ last' = [Call("init", 0, 0, <<>>, <<>>, -1, NoEffect)
                   EXCEPT !.commands = ResetCommands]
    /\ UNCHANGED card

DoRequest ==
    /\ last.op = "idle"
    /\ UNCHANGED stepVars
    /\ \E req_mode \in {PICC_REQIDL, PICC_REQALL}, resp \in ChipResponses :
        LET eff == Request(req_mode, resp)
        IN /\ regs' = [regs EXCEPT !.bitFraming = eff.bitFraming]
           /\ last' = Call("request", req_mode, 0, <<>>, <<>>, -1, eff)
           /\ UNCHANGED <<card, authenticated>>

DoAnticoll ==
    /\ last.op = "idle"
    /\ UNCHANGED stepVars
    /\ \E resp \in ChipResponses :
        LET eff == Anticoll(resp)
        IN /\ regs' = [regs EXCEPT !.bitFraming = eff.bitFraming]
           /\ last' = Call("anticoll", 0, 0, <<>>, <<>>, -1, eff)
           /\ UNCHANGED <<card, authenticated>>

DoSelectTag ==
    /\ last.op = "idle"
    /\ UNCHANGED stepVars
    /\ \E uid \in Uids, cresp \in CrcResponses, resp \in ChipResponses :
        LET eff == SelectTag(uid, cresp, resp, regs.bitFraming)
        IN /\ regs' = [regs EXCEPT !.bitFraming = eff.bitFraming]
           /\ last' = Call("select_tag", 0, 0, <<>>, uid, -1, eff)
           /\ UNCHANGED <<card, authenticated>>

\* status2 is what the chip holds in STATUS2_REG once the handshake is over;
\* the driver reads it only when _transceive returned Ok.
DoAuthenticate ==
    /\ last.op = "idle"
    /\ UNCHANGED stepVars
    /\ \E auth_mode \in {PICC_AUTHENT1A, PICC_AUTHENT1B}, block_addr \in Blocks,
       uid \in Uids, resp \in ChipResponses, status2 \in Status2Values :
        LET eff == Authenticate(auth_mode, block_addr, DefaultKey, uid, resp,
                                status2, regs.bitFraming)
        IN /\ regs' = [regs EXCEPT !.bitFraming = eff.bitFraming,
                                   !.status2 = status2]
           /\ authenticated' = IF eff.exc = "none" THEN TRUE ELSE authenticated
           /\ last' = Call("authenticate", auth_mode, block_addr, <<>>, uid,
                           IF eff.calls[1].status = MI_OK THEN status2 ELSE -1, eff)
           /\ UNCHANGED card

DoStopCrypto1 ==
    /\ last.op = "idle"
    /\ UNCHANGED stepVars
    /\ LET eff == StopCrypto1(regs.status2, regs.bitFraming)
       IN /\ regs' = [regs EXCEPT !.status2 = eff.status2]
          /\ last' = Call("stop_crypto1", 0, 0, <<>>, <<>>, regs.status2, eff)
    /\ authenticated' = FALSE
    /\ UNCHANGED card

DoRead ==
    /\ last.op = "idle"
    /\ UNCHANGED stepVars
    /\ \E block_addr \in Blocks, cresp \in CrcResponses,
       resp \in ChipResponses \cup {BlockResponse(card[b]) : b \in Blocks} :
        LET eff == Read(block_addr, cresp, resp, regs.bitFraming)
        IN /\ regs' = [regs EXCEPT !.bitFraming = eff.bitFraming]
           /\ last' = Call("read", 0, block_addr, <<>>, <<>>, -1, eff)
           /\ UNCHANGED <<card, authenticated>>

DoWrite ==
    /\ last.op = "idle"
    /\ UNCHANGED stepVars
    /\ \E block_addr \in Blocks, data \in Payloads,
       cresp1 \in CrcResponses, resp1 \in ChipResponses :
        LET p1 == WritePhase1(block_addr, cresp1, resp1, regs.bitFraming)
        IN IF p1.exc # "none"
           THEN /\ regs' = [regs EXCEPT !.bitFraming = p1.bitFraming]
                /\ last' = Call("write", 0, block_addr, data, <<>>, -1, p1)
                /\ UNCHANGED <<card, authenticated>>
           ELSE \E cresp2 \in CrcResponses, resp2 \in ChipResponses :
                    LET eff == WritePhase2(p1, data, cresp2, resp2)
                    IN /\ regs' = [regs EXCEPT !.bitFraming = eff.bitFraming]
                       /\ card' = CardAfterWrite(card, block_addr, data, eff)
                       /\ last' = Call("write", 0, block_addr, data, <<>>, -1, eff)
                       /\ UNCHANGED authenticated

DoReadUid ==
    /\ last.op = "idle"
    /\ UNCHANGED stepVars
    /\ \E resp1 \in ChipResponses :
        IF Request(PICC_REQIDL, resp1).ret.status = MI_OK
        THEN \E resp2 \in ChipResponses :
                 LET eff == ReadUid(resp1, resp2)
                 IN /\ regs' = [regs EXCEPT !.bitFraming = eff.bitFraming]
                    /\ last' = Call("read_uid", 0, 0, <<>>, <<>>, -1, eff)
                    /\ UNCHANGED <<card, authenticated>>
        ELSE LET eff == ReadUid(resp1, resp1)
             IN /\ regs' = [regs EXCEPT !.bitFraming = eff.bitFraming]
                /\ last' = Call("read_uid", 0, 0, <<>>, <<>>, -1, eff)
                /\ UNCHANGED <<card, authenticated>>

\* __exit__: the with block is left, by its end (the last call has returned)
\* or by an exception a call raised, which goes on after __exit__ returns
\* None; the antenna is switched off
DoExit ==
    /\ last.op = "idle" \/ last.exc # "none"
    /\ UNCHANGED stepVars
    /\ last.op # "exit"
    /\ regs' = [regs EXCEPT !.txControl = AntennaOff(regs.txControl)]
    /\ last' = [Call("exit", 0, 0, <<>>, <<>>, -1, NoEffect)
                   EXCEPT !.unwinding = last.exc]
    /\ UNCHANGED <<card, authenticated>>

Next ==
    \/ CallerContinues
    \/ InitReader
    \/ DoRequest
    \/ DoAnticoll
    \/ DoSelectTag
    \/ DoAuthenticate
    \/ DoStopCrypto1
    \/ DoRead
    \/ DoWrite
    \/ DoReadUid
    \/ DoExit

Spec == Init /\ [][Next]_vars

\* The caller keeps going: whenever a result is waiting it is taken, and the
\* operations that need no answer from the card (re-initialisation,
\* stop_crypto1, leaving the with block) are called again and again.
SpecFair ==
    /\ Spec
    /\ WF_vars(CallerContinues)
    /\ SF_vars(InitReader)
    /\ SF_vars(DoStopCrypto1)
    /\ SF_vars(DoExit)

(***************************************************************************)
(* _transceive on its own, over every FIFO level a byte can hold           *)
(***************************************************************************)
\* the chip's FIFO holds 64 bytes at most
GridFifo(level) == [j \in 1..(IF level < 64 THEN level ELSE 64) |-> j]

GridResponses ==
    { ChipResponse(k, n, e, level, control, GridFifo(level)) :
        k \in {1}, n \in {\h30, \h21}, e \in {\h00},
        level \in Byte, control \in 0..MaxControl }
    \cup ChipResponses

DoTransceive ==
    /\ last.op = "idle"
    /\ UNCHANGED stepVars
    /\ \E resp \in GridResponses :
        LET t == Transceive(<<PICC_REQIDL>>, resp, regs.bitFraming)
        IN /\ regs' = [regs EXCEPT !.bitFraming = FramingAfter(regs.bitFraming)]
           /\ last' = Call("transceive", 0, 0, <<>>, <<>>, -1,
                           [calls |-> <<t>>, crcs |-> <<>>, exc |-> "none",
                            ret |-> [status |-> t.status, data |-> t.data]])
           /\ UNCHANGED <<card, authenticated>>

NextTransceive == DoTransceive \/ CallerContinues

SpecTransceive == Init /\ [][NextTransceive]_vars

(***************************************************************************)
(* _antenna_on and _antenna_off on their own, from every value the         *)
(* TX_CONTROL_REG byte can hold                                            *)
(***************************************************************************)
InitAntenna ==
    /\ \E temp \in Byte :
           regs = [bitFraming |-> \h00, txControl |-> temp, status2 |-> \h00]
    /\ card = [b \in Blocks |-> [i \in 1..16 |-> 0]]
    /\ authenticated = FALSE
    /\ last = Idle
    /\ bus = BusIdle
    /\ crcUnit = CrcUnitReset
    /\ loop = LoopIdle

\* _antenna_on; the call's record keeps the value the register held before
DoAntennaOn ==
    /\ last.op = "idle"
    /\ UNCHANGED stepVars
    /\ regs' = [regs EXCEPT !.txControl = AntennaOn(regs.txControl)]
    /\ last' = Call("antenna_on", 0, 0, <<regs.txControl>>, <<>>, -1, NoEffect)
    /\ UNCHANGED <<card, authenticated>>

\* _antenna_off; the call's record keeps the value the register held before
DoAntennaOff ==
    /\ last.op = "idle"
    /\ UNCHANGED stepVars
    /\ regs' = [regs EXCEPT !.txControl = AntennaOff(regs.txControl)]
    /\ last' = Call("antenna_off", 0, 0, <<regs.txControl>>, <<>>, -1, NoEffect)
    /\ UNCHANGED <<card, authenticated>>

NextAntenna == DoAntennaOn \/ DoAntennaOff \/ CallerContinues

SpecAntenna == InitAntenna /\ [][NextAntenna]_vars

(***************************************************************************)
(* _write_register and _read_register, statement by statement.  A          *)
(* transfer on the bus (spi.write, spi.read) either completes or raises;   *)
(* an exception leaves the method at once, as the methods hold no          *)
(* try/finally.                                                            *)
(***************************************************************************)
\* register addresses: six bits, as the address byte carries them
RegisterAddresses == 0..63

\* the value bytes the accesses of the model carry
BusValues == {\h00, \hA5}

\* the first byte of an access: (addr << 1) & 0x7E, | 0x80 for a read
AddressByte(addr, isRead) ==
    BitOr(BitAnd(addr * 2, \h7E), IF isRead THEN \h80 ELSE \h00)

\* cs.value(0): an access to register addr starts; val is the byte to write,
\* or the byte the chip will deliver
BeginAccess ==
    /\ bus.pc = "idle"
    /\ \E addr \in RegisterAddresses, isRead \in BOOLEAN, val \in BusValues :
           bus' = [pc |-> "address", cs |-> 0, addr |-> addr, isRead |-> isRead,
                   val |-> val, log |-> <<>>]
    /\ UNCHANGED <<callVars, crcUnit, loop>>

\* spi.write(bytearray([address byte])) completes
TransferAddress ==
    /\ bus.pc = "address"
    /\ bus' = [bus EXCEPT !.pc = "value",
                          !.log = <<AddressByte(bus.addr, bus.isRead)>>]
    /\ UNCHANGED <<callVars, crcUnit, loop>>

\* spi.write(bytearray([address byte])) raises
TransferAddressFails ==
    /\ bus.pc = "address"
    /\ bus' = [bus EXCEPT !.pc = "raised"]
    /\ UNCHANGED <<callVars, crcUnit, loop>>

\* spi.write(bytearray([val])) or spi.read(1) completes
TransferValue ==
    /\ bus.pc = "value"
    /\ bus' = [bus EXCEPT !.pc = "release", !.log = Append(bus.log, bus.val)]
    /\ UNCHANGED <<callVars, crcUnit, loop>>

\* spi.write(bytearray([val])) or spi.read(1) raises
TransferValueFails ==
    /\ bus.pc = "value"
    /\ bus' = [bus EXCEPT !.pc = "raised"]
    /\ UNCHANGED <<callVars, crcUnit, loop>>

\* cs.value(1), then the method returns
Release ==
    /\ bus.pc = "release"
    /\ bus' = [bus EXCEPT !.pc = "returned", !.cs = 1]
    /\ UNCHANGED <<callVars, crcUnit, loop>>

\* the caller goes on after the return, or handles the exception; the
\* chip-select line stays as the access left it
AccessOver ==
    /\ bus.pc \in {"returned", "raised"}
    /\ bus' = [bus EXCEPT !.pc = "idle", !.log = <<>>]
    /\ UNCHANGED <<callVars, crcUnit, loop>>

NextBus ==
    \/ BeginAccess
    \/ TransferAddress
    \/ TransferAddressFails
    \/ TransferValue
    \/ TransferValueFails
    \/ Release
    \/ AccessOver

SpecBus == Init /\ [][NextBus]_vars

(***************************************************************************)
(* _calculate_crc against the chip's CRC coprocessor.  MODE_REG = 0x3D     *)
(* (_init_reader) selects the CRC_A preset 0x6363.  The result registers   *)
(* hold the CRC of the data once the coprocessor has set the CRC-ready     *)
(* flag; until then they hold what was in them before.                     *)
(***************************************************************************)
\* a >> k and a << k on 16 bits
ShiftRight(a, k) == a \div (2 ^ k)
ShiftLeft16(a, k) == (a * (2 ^ k)) % 65536

\* one byte into the CRC_A register (ISO/IEC 14443-3, x^16 + x^12 + x^5 + 1)
CrcAStep(crc, byte) ==
    LET b1 == BitXor(byte, crc % 256)
        b2 == BitXor(b1, (b1 * 16) % 256)
    IN BitXor(BitXor(ShiftRight(crc, 8), ShiftLeft16(b2, 8)),
              BitXor(ShiftLeft16(b2, 3), ShiftRight(b2, 4)))

RECURSIVE CrcARegister(_, _)
CrcARegister(data, k) ==
    IF k = 0 THEN 25443 ELSE CrcAStep(CrcARegister(data, k - 1), data[k])

\* <<CRC_RESULT_REG_L, CRC_RESULT_REG_M>> once the coprocessor has finished
CrcA(data) ==
    LET crc == CrcARegister(data, Len(data))
    IN <<crc % 256, crc \div 256>>

\* the poll of DIV_IRQ_REG that first shows the CRC-ready flag: the first,
\* the second, the last of the budget, or none within the budget
CrcIrqPolls == {1, 2, CrcPollBudget, 0}

\* _calculate_crc(data): when a poll shows the flag the registers hold the
\* CRC of data; when the budget runs out first, they still hold what they
\* held before the call, and the coprocessor may or may not finish later.
DoCalculateCrc ==
    /\ \E data \in CrcInputs, irqAt \in CrcIrqPolls, later \in BOOLEAN :
        LET ready == irqAt \in 1..CrcPollBudget
            held == IF ready THEN CrcA(data) ELSE crcUnit.result
            c == CalculateCrc(data, CrcResponse(irqAt, held[1], held[2]))
        IN crcUnit' = [result |-> IF later THEN CrcA(data) ELSE held,
                       call |-> [data |-> data, crc |-> c.crc,
                                 polls |-> c.polls, ready |-> ready],
                       first |-> IF crcUnit.first[data] = <<>>
                                 THEN [crcUnit.first EXCEPT ![data] = c.crc]
                                 ELSE crcUnit.first]
    /\ UNCHANGED <<callVars, bus, loop>>

NextCrc == DoCalculateCrc

SpecCrc == Init /\ [][NextCrc]_vars

(***************************************************************************)
(* The two polling loops, pass by pass.  Each pass reads the IRQ register  *)
(* into n, decrements i and tests whether the loop ends; the chip may      *)
(* answer each read with any value.                                        *)
(***************************************************************************)
\* passes the model lets a loop make beyond its budget (none is ever made)
MaxOverrun == 2

\* what a read of DIV_IRQ_REG / COMM_IRQ_REG may deliver: no flag, the
\* timer IRQ, the CRC-ready flag, the receive/idle IRQs, other bits only
PollValues == {\h00, \h01, \h04, \h30, \h44}

\* i = 0xFF / i = 2000
Budget(kind) == IF kind = "crc" THEN CrcPollBudget ELSE PollBudget

\* _calculate_crc: if i == 0 or n & 0x04: break
CrcLoopEnds(i, n) == i = 0 \/ BitAnd(n, \h04) # 0

\* TransceiveLoopEnds without the test of the counter
TransceiveLoopEnds_NoBudget(i, n) ==
    ~(BitAnd(n, \h01) = 0 /\ BitAnd(n, \h30) = 0)

\* _transceive: if not (i != 0 and not (n & 0x01) and not (n & 0x30)): break
TransceiveLoopEnds(i, n) ==
    ~(i # 0 /\ BitAnd(n, \h01) = 0 /\ BitAnd(n, \h30) = 0)

LoopEnds(kind, i, n) ==
    IF kind = "crc" THEN CrcLoopEnds(i, n) ELSE TransceiveLoopEnds(i, n)

\* i = 0xFF / i = 2000, before the first pass
StartPoll ==
    /\ loop.pc = "idle"
    /\ \E kind \in {"crc", "transceive"} :
           loop' = [pc |-> "polling", kind |-> kind, i |-> Budget(kind),
                    n |-> 0, reads |-> 0]
    /\ UNCHANGED <<callVars, bus, crcUnit>>

\* one pass: n = _read_register(...); i -= 1; break or go on
PollStep ==
    /\ loop.pc = "polling"
    /\ loop.reads < Budget(loop.kind) + MaxOverrun
    /\ \E n \in PollValues :
           loop' = [loop EXCEPT
                      !.n = n,
                      !.i = loop.i - 1,
                      !.reads = loop.reads + 1,
                      !.pc = IF LoopEnds(loop.kind, loop.i - 1, n)
                             THEN "done" ELSE "polling"]
    /\ UNCHANGED <<callVars, bus, crcUnit>>

\* the method goes on after its loop
FinishPoll ==
    /\ loop.pc = "done"
    /\ loop' = LoopIdle
    /\ UNCHANGED <<callVars, bus, crcUnit>>

NextPoll == StartPoll \/ PollStep \/ FinishPoll

SpecPoll == Init /\ [][NextPoll]_vars

\* a loop that has started makes its next pass
SpecPollFair == SpecPoll /\ WF_vars(PollStep)

(***************************************************************************)
(* The claims                                                              *)
(***************************************************************************)
\* the first (for write: phase-1) _transceive of the call that just returned
First == last.calls[1]

\* the bit length FIFO_LEVEL_REG and the valid-bit count of CONTROL_REG stand for
ImpliedBits(resp) ==
    IF resp.control % 8 # 0 THEN (resp.level - 1) * 8 + (resp.control % 8)
    ELSE resp.level * 8

\* C1: against a card that acknowledges both write phases with the 4-bit
\* nibble 0x0A over an error-free transport, write(b, d) completes without
\* error and stores d, and a read(b) the card answers returns the block.
C1_WriteThenReadRoundTrips ==
    /\ (last.op = "write"
        /\ \A k \in 1..Len(last.calls) : last.calls[k].resp = AckResponse)
       => (last.exc = "none" /\ Len(last.calls) = 2
           /\ card[last.blockAddr] = last.data)
    /\ (last.op = "read" /\ First.resp = BlockResponse(card[last.blockAddr]))
       => (last.exc = "none" /\ last.ret.data = card[last.blockAddr])

\* C2: when phase 1 of write yields status Ok, bit length 4 and a response
\* byte with low nibble 0x0A, write goes on to transmit the data frame.
C2_AckedPhase1Proceeds ==
    (last.op = "write" /\ First.status = MI_OK /\ First.bits = 4
     /\ FifoByte(First.resp.fifo, 1) % 16 = 10)
    => (Len(last.calls) = 2 /\ SubSeq(last.calls[2].frame, 1, 16) = last.data)

\* C3: after any other phase-1 outcome write fails with WriteError and the
\* data frame is never transmitted.
C3_RejectedPhase1IsWriteError ==
    (last.op = "write"
     /\ ~(First.status = MI_OK /\ First.bits = 4
          /\ FifoByte(First.resp.fifo, 1) % 16 = 10))
    => (last.exc = "WriteError" /\ Len(last.calls) = 1)

\* C4: the only failures that leave the driver are the typed ones:
\* AuthenticationError from authenticate, ReadError from read, WriteError
\* from write; every other operation returns.
C4_OnlyTypedFailures ==
    last.exc \in
        CASE last.op = "authenticate" -> {"none", "AuthenticationError"}
          [] last.op = "read" -> {"none", "ReadError"}
          [] last.op = "write" -> {"none", "WriteError"}
          [] OTHER -> {"none"}

\* C5: on a 5-byte answer received with status Ok, anticoll returns Ok and
\* the first 4 bytes iff the 5th byte is their XOR, else Err and no UID.
C5_AnticollChecksum ==
    (last.op = "anticoll" /\ First.status = MI_OK /\ Len(First.data) = 5)
    => IF First.data[5] = Bcc(First.data)
       THEN last.ret = [status |-> MI_OK, data |-> SubSeq(First.data, 1, 4)]
       ELSE last.ret = [status |-> MI_ERR, data |-> <<>>]

\* C5 witness: the checksum byte with its lowest bit flipped is refused
C5_Witness ==
    /\ last.op = "anticoll" /\ First.status = MI_OK
    /\ First.data = Uid(0) \o <<BitXor(Bcc(Uid(0)), 1)>>
    /\ last.ret = [status |-> MI_ERR, data |-> <<>>]

\* C6: request returns Ok iff _transceive returned Ok with exactly 16 bits;
\* with any other bit length it returns Err whatever the status was.
C6_RequestOkIff16Bits ==
    last.op = "request"
    => /\ last.ret.status = MI_OK <=> (First.status = MI_OK /\ First.bits = 16)
       /\ First.bits # 16 => last.ret.status = MI_ERR

\* C6 witness: status Ok with 15 bits is reported as Err
C6_Witness ==
    /\ last.op = "request" /\ First.status = MI_OK /\ First.bits = 15
    /\ last.ret.status = MI_ERR

\* C7: authenticate fails with AuthenticationError when the crypto bit 0x08
\* of STATUS2_REG is unset after its transceive, and when the transceive
\* status is not Ok; it returns only when the status is Ok and the bit is set.
C7_AuthenticateNeedsCryptoBit ==
    last.op = "authenticate"
    => /\ last.exc \in {"none", "AuthenticationError"}
       /\ last.exc = "none"
            <=> (First.status = MI_OK /\ (regs.status2 \div 8) % 2 = 1)

\* C7 witness: status Ok, crypto bit unset, AuthenticationError
C7_Witness ==
    /\ last.op = "authenticate" /\ First.status = MI_OK
    /\ (regs.status2 \div 8) % 2 = 0
    /\ last.exc = "AuthenticationError"

\* C8: when the FIFO level and valid-bit count the chip reports imply more
\* than 128 bits, _transceive returns bit length 128 and drains 16 bytes.
C8_ClampTo128Bits ==
    (last.op = "transceive" /\ First.fifoRead /\ ImpliedBits(First.resp) > 128)
    => (First.bits = 128 /\ Len(First.data) = 16)

\* C8 witness: 17 bytes in the FIFO, clamped
C8_Witness ==
    /\ last.op = "transceive" /\ First.fifoRead
    /\ First.resp.level = 17 /\ First.resp.control = 0
    /\ First.bits = 128 /\ Len(First.data) = 16

\* C9: for every FIFO level and valid-bit count, _transceive's bit length is
\* within 0..128 and it carries bit length div 8 (at most 16) bytes.
C9_BitLengthUnsigned ==
    last.op = "transceive"
    => /\ 0 <= First.bits /\ First.bits <= 128
       /\ Len(First.data) = First.bits \div 8
       /\ Len(First.data) <= 16

\* C10 as stated: a read or write frame is transmitted only while the
\* session is authenticated.
C10_FramesOnlyWhileAuthenticated ==
    (last.op \in {"read", "write"} /\ Len(last.calls) > 0) => last.authBefore

\* C10 as amended: read and write do not look at the session; every call
\* transmits its command frame for the block, authenticated or not.
C10_ReadWriteTransmitUnconditionally ==
    last.op \in {"read", "write"}
    => /\ Len(last.calls) >= 1
       /\ First.frame[1] = (IF last.op = "read" THEN PICC_READ ELSE PICC_WRITE)
       /\ First.frame[2] = last.blockAddr

\* C10 witness: a read frame sent with no authenticated session
C10_Witness ==
    /\ last.op = "read" /\ ~last.authBefore
    /\ Len(last.calls) = 1 /\ First.frame[1] = PICC_READ

\* the request of a read_uid succeeded: _transceive Ok with 16 bits
UidRequestOk == First.status = MI_OK /\ First.bits = 16

\* the anticollision of a read_uid succeeded: _transceive Ok with five
\* bytes, the fifth the XOR of the first four
UidAnticollOk ==
    /\ Len(last.calls) = 2
    /\ last.calls[2].status = MI_OK
    /\ Len(last.calls[2].data) = 5
    /\ Checksum(last.calls[2].data, 4) = last.calls[2].data[5]

\* C13: read_uid sends REQIDL once, sends the anticollision frame once and
\* only when that request returned Ok, returns the 4-byte UID exactly when
\* both the request and the anticollision succeeded and "no card" (None)
\* otherwise, and never raises.
C13_ReadUidSequence ==
    last.op = "read_uid" =>
        /\ First.frame = <<PICC_REQIDL>>
        /\ Len(last.calls) = IF UidRequestOk THEN 2 ELSE 1
        /\ UidRequestOk => last.calls[2].frame = <<PICC_ANTICOLL, \h20>>
        /\ last.exc = "none"
        /\ IF UidRequestOk /\ UidAnticollOk
           THEN /\ last.ret.status = MI_OK
                /\ last.ret.data = SubSeq(last.calls[2].data, 1, 4)
                /\ Len(last.ret.data) = 4
           ELSE last.ret = NoRet

\* a read_uid that returned a UID, after both of its frames
C13_Witness ==
    /\ last.op = "read_uid"
    /\ Len(last.calls) = 2
    /\ last.ret # NoRet
    /\ Len(last.ret.data) = 4

\* a read_uid whose request succeeded and whose anticollision did not
C13_WitnessNoCard ==
    /\ last.op = "read_uid"
    /\ UidRequestOk
    /\ ~UidAnticollOk

\* the values the driver may write to COMMAND_REG
AllowedCommands == {PCD_RESETPHASE, PCD_IDLE, PCD_CALCCRC, PCD_TRANSCEIVE}

\* C20: every value written to COMMAND_REG is soft reset (0x0F), idle (0x00),
\* calc-CRC (0x03) or transceive (0x0C); every frame, that of authenticate
\* included, is started by idle then transceive, and the chip's authenticate
\* command (0x0E) is never written.
C20_CommandsWritten ==
    /\ \A k \in 1..Len(last.commands) : last.commands[k] \in AllowedCommands
    /\ \A k \in 1..Len(last.commands) : last.commands[k] # PCD_AUTHENT
    /\ \A k \in 1..Len(last.calls) :
           last.calls[k].commands = <<PCD_IDLE, PCD_TRANSCEIVE>>
    /\ last.op = "authenticate" => last.commands = <<PCD_IDLE, PCD_TRANSCEIVE>>
    /\ last.op = "init" => last.commands = <<PCD_RESETPHASE>>

\* an authenticate that was accepted, its frame sent with transceive
C20_Witness ==
    /\ last.op = "authenticate"
    /\ last.exc = "none"
    /\ Len(last.commands) = 2
    /\ last.commands[2] = PCD_TRANSCEIVE

\* a read: one CRC run, then its frame
C20_WitnessRead ==
    /\ last.op = "read"
    /\ last.exc = "none"
    /\ last.commands = <<PCD_CALCCRC, PCD_IDLE, PCD_TRANSCEIVE>>

\* the frames of the last call that are made of whole bytes: every frame but
\* the short frame of request (the first frame of read_uid included)
FullByteFrames ==
    { k \in 1..Len(last.calls) :
        ~(k = 1 /\ last.op \in {"request", "read_uid"}) }

\* C19: every full-byte frame (anticollision, select, authenticate, read,
\* either phase of write) is started with the transmit-last-bits field of
\* BIT_FRAMING_REG at 0, whatever operations came before it.
C19_FullFramesSendWholeBytes ==
    \A k \in FullByteFrames : last.calls[k].txLastBits = 0

\* both antenna driver bits of a TX_CONTROL_REG value are set / are clear
AntennaIsOn(temp) == BitAnd(temp, \h03) = \h03
AntennaIsOff(temp) == BitAnd(temp, \h03) = 0

\* C14: when construction (_init_reader) has finished both low-order bits of
\* TX_CONTROL_REG are set; when a with block holding the reader has been
\* left, by its end or by an AuthenticationError, ReadError or WriteError
\* raised inside it, both bits are clear.
C14_AntennaScoped ==
    /\ last.op = "init" => AntennaIsOn(regs.txControl)
    /\ last.op = "exit" => AntennaIsOff(regs.txControl)

\* a with block left by an exception of each of the three kinds, and one left
\* by its end
C14_Witness ==
    /\ last.op = "exit"
    /\ last.unwinding = "ReadError"

C14_WitnessAuthenticationError ==
    /\ last.op = "exit"
    /\ last.unwinding = "AuthenticationError"

C14_WitnessWriteError ==
    /\ last.op = "exit"
    /\ last.unwinding = "WriteError"

C14_WitnessNormal ==
    /\ last.op = "exit"
    /\ last.unwinding = "none"

\* C18: for every prior value of TX_CONTROL_REG, after _antenna_on the
\* register is the prior value with both bits of mask 0x03 set, and after
\* _antenna_off it is the prior value with both bits clear; no other bit
\* changes.
C18_AntennaForEveryPriorValue ==
    /\ last.op = "antenna_on" =>
           regs.txControl = BitOr(last.data[1], \h03)
    /\ last.op = "antenna_off" =>
           regs.txControl = BitClear(last.data[1], \h03)

\* one of the polls of COMM_IRQ_REG the last _transceive made read a value
\* with bit 0x30 or bit 0x01
IrqObserved ==
    /\ First.resp.irqAt \in 1..PollBudget
    /\ BitAnd(First.resp.n, \h31) # 0

\* C16: _transceive makes at most 2000 polls; it evaluates the response
\* (reads ERROR_REG) exactly when one of them, the 2000th included, observed
\* the 0x30 or the 0x01 IRQ bit, and reports the timeout outcome (MI_ERR,
\* no data, 0 bits, ERROR_REG not read) only when none did.
C16_TimeoutOnlyWhenNoIrqSeen ==
    last.op = "transceive" =>
        /\ First.polls <= PollBudget
        /\ First.errorRead <=> IrqObserved
        /\ ~First.errorRead =>
               First.status = MI_ERR /\ First.data = <<>> /\ First.bits = 0

\* a register access is in progress: chip-select asserted, not yet left
AccessInProgress == bus.pc \in {"address", "value", "release"}

\* C11: a register access holds chip-select low while it runs, makes exactly
\* two transfers (the address byte, then the value byte) before it returns,
\* and leaves chip-select high on every path out of it, a failed transfer
\* included: chip-select is high whenever no access is in progress.
C11_ChipSelectScoped ==
    /\ AccessInProgress => bus.cs = 0
    /\ ~AccessInProgress => bus.cs = 1
    /\ bus.pc = "returned" =>
           bus.log = <<AddressByte(bus.addr, bus.isRead), bus.val>>

\* C12: _calculate_crc is deterministic: any two calls with the same input
\* bytes return the same (low, high) pair, whichever way their polling
\* loops ended.
C12_CrcDeterministic ==
    crcUnit.call # NoCrcCall =>
        crcUnit.call.crc = crcUnit.first[crcUnit.call.data]

\* a call whose loop saw the CRC-ready flag returns the CRC_A of its input
CrcReadyIsCrcA ==
    crcUnit.call.ready => crcUnit.call.crc = CrcA(crcUnit.call.data)

\* known CRC_A values: READ of block 0 is sent as 30 00 02 A8
CrcAKnownValues ==
    /\ CrcA(<<0, 0>>) = <<\hA0, \h1E>>
    /\ CrcA(<<\h30, \h00>>) = <<\h02, \hA8>>
    /\ CrcA(<<\h50, \h00>>) = <<\h57, \hCD>>

C17_WitnessCrc ==
    /\ loop.pc = "done"
    /\ loop.kind = "crc"
    /\ loop.reads = CrcPollBudget
    /\ loop.n = 0

\* every loop that has started ends
PollingTerminates == (loop.pc = "polling") ~> (loop.pc = "done")

\* the number of reads a method-level call is modelled with is the number
\* the loop makes when the flag is first shown at the pass it ended on, or
\* never
PollLoopAgrees ==
    loop.pc = "done" =>
        LET flagged == IF loop.kind = "crc" THEN BitAnd(loop.n, \h04) # 0
                       ELSE BitAnd(loop.n, \h31) # 0
            irqAt == IF flagged THEN loop.reads ELSE 0
        IN IF loop.kind = "crc"
           THEN CrcPolls(CrcResponse(irqAt, 0, 0)) = loop.reads
           ELSE /\ PollLoop(ChipResponse(irqAt, loop.n, 0, 0, 0, <<>>)).polls = loop.reads
                /\ PollLoop(ChipResponse(irqAt, loop.n, 0, 0, 0, <<>>)).i = loop.i

\* every poll count of a method-level call is within its budget
CallPollsBounded ==
    /\ \A k \in 1..Len(last.calls) : last.calls[k].polls \in 1..PollBudget
    /\ \A k \in 1..Len(last.crcs) : last.crcs[k].polls \in 1..CrcPollBudget

\* the public operations of the driver, and the construction
Operations ==
    {"init", "request", "anticoll", "select_tag", "authenticate",
     "stop_crypto1", "read", "write", "read_uid", "exit"}

\* the last call transmitted the card halt command
HaltSent ==
    \E k \in 1..Len(last.calls) : last.calls[k].frame[1] = PICC_HALT

====
